---- MODULE Spec2Model ----
(***************************************************************************)
(* The order-fulfilment flow of go-ecommerce-microservices: the cart       *)
(* service, the order service, the payment service, the browser client     *)
(* (frontend/static/js/app.js) that drives a checkout through them, and    *)
(* the single-process server that serves the same client from one          *)
(* database.                                                               *)
(*                                                                         *)
(* Money is counted in whole units (the code uses float64 / DECIMAL(10,2)).*)
(* Every database statement and every HTTP call between processes may      *)
(* fail: the failing outcome is a nondeterministic choice of the action.   *)
(* A handler that runs several statements is one action per statement, so  *)
(* that other requests interleave with it as they do in the servers.       *)
(***************************************************************************)
EXTENDS Integers, Sequences, FiniteSets, TLC

\* ------------------------------------------------------------------ bounds
MaxOrders == 2          \* rows the orders table may hold
MaxPayments == 2        \* rows the payments table may hold
MaxCartId == 2          \* values the cart_items SERIAL id may take
MaxRequests == 4        \* requests the gateway takes in a run
MaxTicks == 1           \* times a minute passes since lastReset

\* The logged-in customer of the browser session (app.js currentUser).
currentUser == 1
Products == {1, 2}

\* Catalogue price and name of a product, as the client sends them when it
\* adds the product to the cart.
PriceOf(p) == IF p = 1 THEN 10 ELSE 5
NameOf(p) == IF p = 1 THEN "p1" ELSE "p2"
ImageOf(p) == IF p = 1 THEN "p1.png" ELSE "p2.png"

VARIABLES
    cart_items,   \* cart store: the cart_items table, a set of rows
    nextCartId,   \* cart store: next value of the cart_items id sequence
    cart,         \* client: the cached cart (app.js `cart`)
    section,      \* client: the section shown (app.js showSection)
    co,           \* client: position of handleCheckout and what it holds
    orders,       \* order ledger: the orders table, row i has id i
    order_items,  \* order ledger: the order_items table, a set of rows
    tx,           \* order ledger: the open createOrder transaction
    payments,     \* payment service: the payments table, row i has id i
    calls,        \* handlers in flight between two of their statements
    resp,         \* what the step just taken answered to its caller
    gw            \* gateway: the rate limiter's globals and its goroutines

vars == <<cart_items, nextCartId, cart, section, co, orders, order_items, tx,
          payments, calls, resp, gw>>

cartVars == <<cart_items, nextCartId>>
clientVars == <<cart, section, co>>
ledgerVars == <<orders, order_items, tx>>

\* ----------------------------------------------------------------- helpers
RECURSIVE TotalItems(_)
TotalItems(rows) ==
    IF rows = {} THEN 0
    ELSE LET r == CHOOSE x \in rows : TRUE
         IN r.quantity + TotalItems(rows \ {r})

\* A total that adds the prices without the quantities.
RECURSIVE TotalPrice_unweighted(_)
TotalPrice_unweighted(rows) ==
    IF rows = {} THEN 0
    ELSE LET r == CHOOSE x \in rows : TRUE
         IN r.price + TotalPrice_unweighted(rows \ {r})

RECURSIVE TotalPrice(_)
TotalPrice(rows) ==
    IF rows = {} THEN 0
    ELSE LET r == CHOOSE x \in rows : TRUE
         IN r.price * r.quantity + TotalPrice(rows \ {r})

\* The lines of a set of cart rows or order items: what a product is held
\* at, without the row ids.
Lines(rows) ==
    {[product_id |-> r.product_id, name |-> r.name,
      quantity |-> r.quantity, price |-> r.price] : r \in rows}

\* What a step answered: the handler, the HTTP status (0 for a toast of the
\* client), the id of the row the answer is about (0 when none), the lines
\* the body lists and the text of an error.
NoResp == [op |-> "none", code |-> 0, id |-> 0, body |-> {}, msg |-> ""]
Answer(op, code, id) ==
    [op |-> op, code |-> code, id |-> id, body |-> {}, msg |-> ""]
Failure(op, code, msg) ==
    [op |-> op, code |-> code, id |-> 0, body |-> {}, msg |-> msg]
Toast(kind) == [op |-> kind, code |-> 0, id |-> 0, body |-> {}, msg |-> ""]

EmptyCart == [items |-> {}, total_items |-> 0, total_price |-> 0]
Idle == [pc |-> "idle", order |-> 0, status |-> ""]
NoReq == [user_id |-> 0, total_amount |-> 0, items |-> {}]
NoTx == [open |-> FALSE, from |-> "", id |-> 0, req |-> NoReq, done |-> {}]

Call(op, stage, pid, order, status, from) ==
    [op |-> op, stage |-> stage, pid |-> pid, order |-> order,
     status |-> status, from |-> from]

\* -------------------------------------------------------------- cart store
CartRows(u) == {r \in cart_items : r.user_id = u}

\* getCart: SELECT ... WHERE user_id = $1, totals summed over the rows read.
getCart(u) ==
    [items |-> CartRows(u),
     total_items |-> TotalItems(CartRows(u)),
     total_price |-> TotalPrice(CartRows(u))]

\* The table without ON CONFLICT and without UNIQUE(user_id, product_id):
\* every add is a new row.
Upsert_insert(u, p, q, price, name, image_url) ==
    cart_items \cup {[id |-> nextCartId, user_id |-> u, product_id |-> p,
                      quantity |-> q, price |-> price, name |-> name,
                      image_url |-> image_url]}

\* An upsert whose DO UPDATE sets the quantity sent instead of adding it.
Upsert_overwrite(u, p, q, price, name, image_url) ==
    IF \E r \in cart_items : r.user_id = u /\ r.product_id = p
    THEN {IF r.user_id = u /\ r.product_id = p
             THEN [r EXCEPT !.quantity = q]
             ELSE r : r \in cart_items}
    ELSE cart_items \cup {[id |-> nextCartId, user_id |-> u, product_id |-> p,
                           quantity |-> q, price |-> price, name |-> name,
                           image_url |-> image_url]}

\* An upsert whose DO UPDATE also takes the price, name and image sent.
Upsert_lastwriter(u, p, q, price, name, image_url) ==
    IF \E r \in cart_items : r.user_id = u /\ r.product_id = p
    THEN {IF r.user_id = u /\ r.product_id = p
             THEN [r EXCEPT !.quantity = r.quantity + q, !.price = price,
                            !.name = name, !.image_url = image_url]
             ELSE r : r \in cart_items}
    ELSE cart_items \cup {[id |-> nextCartId, user_id |-> u, product_id |-> p,
                           quantity |-> q, price |-> price, name |-> name,
                           image_url |-> image_url]}

\* The INSERT ... ON CONFLICT (user_id, product_id) DO UPDATE of addToCart.
Upsert(u, p, q, price, name, image_url) ==
    IF \E r \in cart_items : r.user_id = u /\ r.product_id = p
    THEN {IF r.user_id = u /\ r.product_id = p
             THEN [r EXCEPT !.quantity = r.quantity + q]
             ELSE r : r \in cart_items}
    ELSE cart_items \cup {[id |-> nextCartId, user_id |-> u, product_id |-> p,
                           quantity |-> q, price |-> price, name |-> name,
                           image_url |-> image_url]}

\* The answer of a cart handler, with the customer of the path in id and
\* what the request named in body.
CartAnswer(op, code, u, named) ==
    [op |-> op, code |-> code, id |-> u, body |-> named, msg |-> ""]

\* POST /cart/{user_id}/items. The id sequence advances on every executed
\* INSERT, also when the row exists and is updated.
addToCart(u, p, q, price, name, image_url) ==
    /\ nextCartId <= MaxCartId
    /\ \E ok \in BOOLEAN :
          LET sent == {[product_id |-> p, name |-> name, quantity |-> q,
                        price |-> price, image_url |-> image_url]}
          IN IF ok
             THEN /\ cart_items' = Upsert(u, p, q, price, name, image_url)
                  /\ nextCartId' = nextCartId + 1
                  /\ resp' = CartAnswer("addToCart", 200, u, sent)
             ELSE /\ UNCHANGED cartVars
                  /\ resp' = CartAnswer("addToCart", 500, u, sent)
    /\ UNCHANGED <<clientVars, ledgerVars, payments, calls, gw>>

\* DELETE FROM cart_items WHERE id = $1, with no test of the owner.
DeleteItem_unscoped(u, i) == {r \in cart_items : r.id # i}

\* DELETE FROM cart_items WHERE id = $1 AND user_id = $2.
DeleteItem(u, i) == {r \in cart_items : ~ (r.id = i /\ r.user_id = u)}

\* An UPDATE that adds the quantity sent to the line's quantity.
SetQuantity_additive(u, i, q) ==
    {IF r.id = i /\ r.user_id = u
        THEN [r EXCEPT !.quantity = r.quantity + q] ELSE r : r \in cart_items}

\* UPDATE cart_items SET quantity = $1 WHERE id = $2 AND user_id = $3.
SetQuantity(u, i, q) ==
    {IF r.id = i /\ r.user_id = u THEN [r EXCEPT !.quantity = q] ELSE r :
        r \in cart_items}

\* PUT /cart/{user_id}/items/{item_id}: a quantity of 0 or less deletes the
\* row. A statement that matches no row is no error.
updateCartItem(u, i, q) ==
    /\ \E ok \in BOOLEAN :
          LET named == {[item_id |-> i, quantity |-> q]}
          IN IF ok
             THEN /\ cart_items' = IF q <= 0 THEN DeleteItem(u, i)
                                   ELSE SetQuantity(u, i, q)
                  /\ resp' = CartAnswer("updateCartItem", 200, u, named)
             ELSE /\ UNCHANGED cart_items
                  /\ resp' = CartAnswer("updateCartItem", 500, u, named)
    /\ UNCHANGED <<nextCartId, clientVars, ledgerVars, payments, calls, gw>>

\* DELETE /cart/{user_id}/items/{item_id}.
removeFromCart(u, i) ==
    /\ \E ok \in BOOLEAN :
          LET named == {[item_id |-> i, quantity |-> 0]}
          IN IF ok
             THEN /\ cart_items' = DeleteItem(u, i)
                  /\ resp' = CartAnswer("removeFromCart", 204, u, named)
             ELSE /\ UNCHANGED cart_items
                  /\ resp' = CartAnswer("removeFromCart", 500, u, named)
    /\ UNCHANGED <<nextCartId, clientVars, ledgerVars, payments, calls, gw>>

\* The DELETE FROM cart_items WHERE user_id = $1 of clearCart.
DeleteCart(u) == cart_items \ CartRows(u)

\* GET /cart/{user_id}: the cart as the answer's body, or 500 when the query
\* fails.
getCart_handler(u) ==
    /\ \E ok \in BOOLEAN :
          resp' = IF ok THEN CartAnswer("getCart", 200, u, {getCart(u)})
                  ELSE CartAnswer("getCart", 500, u, {})
    /\ UNCHANGED <<cartVars, clientVars, ledgerVars, payments, calls, gw>>

\* DELETE /cart/{user_id}.
clearCart(u) ==
    /\ \E ok \in BOOLEAN :
          IF ok
          THEN /\ cart_items' = DeleteCart(u)
               /\ resp' = CartAnswer("clearCart", 204, u, {})
          ELSE /\ UNCHANGED cart_items
               /\ resp' = CartAnswer("clearCart", 500, u, {})
    /\ UNCHANGED <<nextCartId, clientVars, ledgerVars, payments, calls, gw>>

\* ------------------------------------------------------------------ client
\* loadCart: cart = await response.json(). A failed load (an error page is
\* no JSON and throws) leaves the cached cart as it was: a step that changes
\* nothing.
loadCart ==
    /\ co.pc = "idle"
    /\ cart' = getCart(currentUser)
    /\ cart' # cart
    /\ resp' = NoResp
    /\ UNCHANGED <<cartVars, section, co, ledgerVars, payments, calls, gw>>

\* checkout(): an empty cached cart shows a toast and stays; otherwise the
\* checkout section is shown.
checkout ==
    /\ co.pc = "idle"
    /\ section # "checkout"
    /\ IF cart.items = {}
       THEN /\ resp' = Toast("toast_empty_cart")
            /\ UNCHANGED section
       ELSE /\ resp' = NoResp
            /\ section' = "checkout"
    /\ UNCHANGED <<cartVars, cart, co, ledgerVars, payments, calls, gw>>

\* ------------------------------------------------------------ order ledger
HasOrder(id) == id \in 1..Len(orders)

\* updated_at is kept as whether it still is the time of creation (the
\* column's default) or a later CURRENT_TIMESTAMP.
OrderRow(id, req) ==
    [id |-> id, user_id |-> req.user_id, status |-> "pending",
     total_amount |-> req.total_amount, payment_status |-> "pending",
     updated_at |-> "created"]

ItemRows(id, items) ==
    {[order_id |-> id, product_id |-> i.product_id, name |-> i.name,
      quantity |-> i.quantity, price |-> i.price] : i \in items}

ItemsOf(id) == {i \in order_items : i.order_id = id}

\* What the caller of createOrder does with the answer: handleCheckout goes
\* on to the payment with the order's id, or ends in its catch (a response
\* that is not ok throws); another caller only gets the answer.
CreateAnswered(from, id) ==
    /\ co' = IF from = "client"
             THEN [pc |-> "ordered", order |-> id, status |-> ""] ELSE co
    /\ resp' = Answer("createOrder", 201, id)

\* handleCheckout without its test of orderResponse.ok: it goes on to the
\* payment with the id it did not get.
CreateFailed_unchecked(from, msg) ==
    IF from = "client"
    THEN co' = [pc |-> "ordered", order |-> 0, status |-> ""] /\ resp' = NoResp
    ELSE UNCHANGED co /\ resp' = Failure("createOrder", 500, msg)

CreateFailed(from, msg) ==
    IF from = "client"
    THEN co' = Idle /\ resp' = Toast("toast_error")
    ELSE UNCHANGED co /\ resp' = Failure("createOrder", 500, msg)

\* The tables as other sessions read them once the open transaction has
\* committed, and once it has rolled back (defer tx.Rollback()).
Committed ==
    [orders |-> Append(orders, OrderRow(tx.id, tx.req)),
     order_items |-> order_items \cup ItemRows(tx.id, tx.done)]

\* The tables if the statements run so far were kept instead of undone.
RowsLeftBehind ==
    [orders |-> Append(orders, OrderRow(tx.id, tx.req)),
     order_items |-> order_items \cup ItemRows(tx.id, tx.done)]

RolledBack == [orders |-> orders, order_items |-> order_items]

\* createOrder, db.Begin and the INSERT of the header with the request's
\* total_amount, status and payment_status 'pending'. The model runs one
\* createOrder at a time and numbers the rows that commit (an id a rolled
\* back INSERT drew from the sequence is not skipped).
createOrder(from, req) ==
    /\ ~ tx.open
    /\ Len(orders) < MaxOrders
    /\ \E ok \in BOOLEAN :
          IF ok
          THEN /\ tx' = [open |-> TRUE, from |-> from, id |-> Len(orders) + 1,
                         req |-> req, done |-> {}]
               /\ resp' = NoResp
               /\ co' = IF from = "client"
                        THEN [co EXCEPT !.pc = "ordering"] ELSE co
          ELSE /\ UNCHANGED tx
               /\ CreateFailed(from, "Failed to create order")
    /\ UNCHANGED <<cartVars, cart, section, orders, order_items, payments,
                 calls, gw>>

\* createOrder, the INSERT of the next item of the request (in the order of
\* the request, here by product id); a failure returns, which rolls back.
createOrder_item ==
    /\ tx.open
    /\ tx.done # tx.req.items
    /\ LET left == tx.req.items \ tx.done
           it == CHOOSE i \in left : \A j \in left : i.product_id <= j.product_id
       IN \E ok \in BOOLEAN :
             IF ok
             THEN /\ tx' = [tx EXCEPT !.done = tx.done \cup {it}]
                  /\ resp' = NoResp
                  /\ UNCHANGED <<co, orders, order_items>>
             ELSE /\ tx' = NoTx
                  /\ orders' = RolledBack.orders
                  /\ order_items' = RolledBack.order_items
                  /\ CreateFailed(tx.from, "Failed to create order items")
    /\ UNCHANGED <<cartVars, cart, section, payments, calls, gw>>

\* createOrder, tx.Commit() and the answer.
createOrder_commit ==
    /\ tx.open
    /\ tx.done = tx.req.items
    /\ tx' = NoTx
    /\ \E ok \in BOOLEAN :
          IF ok
          THEN /\ orders' = Committed.orders
               /\ order_items' = Committed.order_items
               /\ CreateAnswered(tx.from, tx.id)
          ELSE /\ orders' = RolledBack.orders
               /\ order_items' = RolledBack.order_items
               /\ CreateFailed(tx.from, "Failed to commit transaction")
    /\ UNCHANGED <<cartVars, cart, section, payments, calls, gw>>

\* The two UPDATE statements of updatePaymentStatus, each its own
\* autocommitted statement. An id that matches no row updates nothing and is
\* no error.
SetPaymentStatus(id, s) ==
    [i \in 1..Len(orders) |->
        IF i = id
        THEN [orders[i] EXCEPT !.payment_status = s, !.updated_at = "later"]
        ELSE orders[i]]

SetStatus(id, s) ==
    [i \in 1..Len(orders) |->
        IF i = id THEN [orders[i] EXCEPT !.status = s] ELSE orders[i]]

\* An UPDATE of updateOrderStatus that also zeroes the total of a cancelled
\* order.
SetStatusAt_retotal(id, s) ==
    [i \in 1..Len(orders) |->
        IF i = id
        THEN [orders[i] EXCEPT !.status = s, !.updated_at = "later",
                               !.total_amount =
                                  IF s = "cancelled" THEN 0 ELSE @]
        ELSE orders[i]]

\* The UPDATE of updateOrderStatus.
SetStatusAt(id, s) ==
    [i \in 1..Len(orders) |->
        IF i = id
        THEN [orders[i] EXCEPT !.status = s, !.updated_at = "later"]
        ELSE orders[i]]

\* The statuses updateOrderStatus takes, any text a request may send, and
\* the answer of the two PATCH handlers, with the value sent in body.
AnyStatuses ==
    {"pending", "confirmed", "processing", "shipped", "delivered",
     "cancelled", "completed", "failed", "refunded", "returned", ""}

\* A handler that takes whatever text is sent.
validStatuses_unchecked == AnyStatuses

validStatuses ==
    {"pending", "confirmed", "processing", "shipped", "delivered", "cancelled"}

PatchAnswer(op, code, id, s, msg) ==
    [op |-> op, code |-> code, id |-> id, body |-> {[status |-> s]},
     msg |-> msg]

\* PATCH /orders/{id}/status: a status outside validStatuses answers 400;
\* otherwise one UPDATE by id, whatever the row's status is. An id that
\* matches no row updates nothing and is answered as a success.
updateOrderStatus(from, id, s) ==
    /\ IF s \notin validStatuses
       THEN /\ resp' = PatchAnswer("updateOrderStatus", 400, id, s,
                                   "Invalid status")
            /\ UNCHANGED orders
       ELSE \E ok \in BOOLEAN :
               IF ok
               THEN /\ orders' = SetStatusAt(id, s)
                    /\ resp' = PatchAnswer("updateOrderStatus", 200, id, s, "")
               ELSE /\ UNCHANGED orders
                    /\ resp' = PatchAnswer("updateOrderStatus", 500, id, s,
                                           "Failed to update order status")
    /\ UNCHANGED <<cartVars, clientVars, order_items, tx, payments, calls, gw>>

\* The same for the payment status.
validPaymentStatuses_unchecked == AnyStatuses

validPaymentStatuses == {"pending", "completed", "failed", "refunded"}

\* PATCH /orders/{id}/payment up to its first UPDATE: a value outside
\* validPaymentStatuses answers 400; otherwise payment_status is set by id,
\* whatever it was; for "completed" the handler goes on to its second UPDATE.
updatePaymentStatus(from, id, s) ==
    /\ IF s \notin validPaymentStatuses
       THEN /\ resp' = PatchAnswer("updatePaymentStatus", 400, id, s,
                                   "Invalid payment status")
            /\ UNCHANGED <<orders, calls>>
       ELSE \E ok \in BOOLEAN :
               IF ok
               THEN /\ orders' = SetPaymentStatus(id, s)
                    /\ IF s = "completed"
                       THEN /\ calls' = calls \cup
                                   {Call("updatePaymentStatus", "confirm", 0,
                                         id, s, from)}
                            /\ resp' = NoResp
                       ELSE /\ UNCHANGED calls
                            /\ resp' = PatchAnswer("updatePaymentStatus", 200,
                                                   id, s, "")
               ELSE /\ UNCHANGED <<orders, calls>>
                    /\ resp' = PatchAnswer("updatePaymentStatus", 500, id, s,
                                           "Failed to update payment status")
    /\ UNCHANGED <<cartVars, clientVars, order_items, tx, payments, gw>>

\* getOrder, the SELECT of the header; no such row answers 404.
getOrder(from, id) ==
    /\ IF HasOrder(id)
       THEN /\ calls' = calls \cup {Call("getOrder", "items", 0, id, "", from)}
            /\ resp' = NoResp
       ELSE /\ UNCHANGED calls
            /\ resp' = Failure("getOrder", 404, "Order not found")
    /\ UNCHANGED <<cartVars, clientVars, ledgerVars, payments, gw>>

\* getOrder, the SELECT of the items and the answer. When the query fails,
\* its error is dropped and the header is answered without items (msg marks
\* that branch; the response itself is a 200 like the other).
getOrder_items(c) ==
    /\ c \in calls
    /\ c.op = "getOrder"
    /\ calls' = calls \ {c}
    /\ \E ok \in BOOLEAN :
          resp' = [op |-> "getOrder", code |-> 200, id |-> c.order,
                   body |-> IF ok THEN Lines(ItemsOf(c.order)) ELSE {},
                   msg |-> IF ok THEN "" ELSE "items not read"]
    /\ UNCHANGED <<cartVars, clientVars, ledgerVars, payments, gw>>

\* --------------------------------------------------------- payment service
\* card_info of a PaymentRequest: absent (the pointer is nil), or a number,
\* an expiry and a CVC, each a sequence of digits.
NoCard == [present |-> FALSE, number |-> <<>>, expiry |-> <<>>, cvc |-> <<>>]

CardInfo(number, expiry, cvc) ==
    [present |-> TRUE, number |-> number, expiry |-> expiry, cvc |-> cvc]

\* payment.CardLast4: Number[len(Number)-4:] when card_info is there and
\* the number has four characters or more, else the empty string.
CardLast4(card) ==
    IF card.present /\ Len(card.number) >= 4
    THEN SubSeq(card.number, Len(card.number) - 3, Len(card.number))
    ELSE <<>>

\* A payment row whose decline carries no error_message.
PaymentRow_silent(id, req, approved, txn) ==
    [id |-> id, order_id |-> req.order_id, user_id |-> req.user_id,
     amount |-> req.amount, transaction_id |-> txn,
     card_last4 |-> CardLast4(req.card_info),
     status |-> IF approved THEN "completed" ELSE "failed",
     error_message |-> ""]

PaymentRow(id, req, approved, txn) ==
    [id |-> id, order_id |-> req.order_id, user_id |-> req.user_id,
     amount |-> req.amount, transaction_id |-> txn,
     card_last4 |-> CardLast4(req.card_info),
     status |-> IF approved THEN "completed" ELSE "failed",
     error_message |-> IF approved THEN "" ELSE "Payment declined by issuer"]

\* What the caller of a finished handler does with the answer.
\* processPayment answers with the payment as JSON (201 or 402), which
\* handleCheckout reads the status of if it still waits for it.
PaymentAnswered(c) ==
    /\ resp' = Answer("processPayment",
                      IF c.status = "completed" THEN 201 ELSE 402, c.pid)
    /\ co' = IF c.from = "client" /\ co.pc = "paying" /\ co.order = c.order
             THEN [pc |-> "paid", order |-> c.order, status |-> c.status]
             ELSE co

RefundAnswered(c) ==
    /\ resp' = Answer("refundPayment", 200, c.pid)
    /\ UNCHANGED co

PatchAnswered(c) ==
    /\ resp' = PatchAnswer("updatePaymentStatus", 200, c.order, c.status, "")
    /\ UNCHANGED co

Answered(c) ==
    IF c.op = "processPayment" THEN PaymentAnswered(c)
    ELSE IF c.op = "refundPayment" THEN RefundAnswered(c)
    ELSE PatchAnswered(c)

\* generateTransactionID: "txn_<UnixNano>_<rand below 10000>", kept as a
\* number: a value no stored row has, or the value of a stored row (the same
\* nanosecond and random number, a clock set back).
generateTransactionID == 1..(Len(payments) + 1)

\* A payments table without UNIQUE on transaction_id.
UniqueViolation_unchecked(txn) == FALSE

\* transaction_id VARCHAR(100) UNIQUE: the INSERT of a stored value fails.
UniqueViolation(txn) ==
    \E i \in 1..Len(payments) : payments[i].transaction_id = txn

\* processPayment up to its INSERT: the gateway simulation approves or
\* declines, the row is inserted with that status; a failed INSERT answers
\* 500 with a text body, which handleCheckout fails to parse.
processPayment(from, req) ==
    /\ Len(payments) < MaxPayments
    /\ \E approved \in BOOLEAN, ok \in BOOLEAN, txn \in generateTransactionID :
          IF ok /\ ~ UniqueViolation(txn)
          THEN LET row == PaymentRow(Len(payments) + 1, req, approved, txn)
               IN /\ payments' = Append(payments, row)
                  /\ calls' = calls \cup
                        {Call("processPayment", "push", row.id, row.order_id,
                              row.status, from)}
                  /\ resp' = NoResp
                  /\ co' = IF from = "client"
                           THEN [co EXCEPT !.pc = "paying"] ELSE co
          ELSE /\ UNCHANGED <<payments, calls>>
               /\ IF from = "client"
                  THEN co' = Idle /\ resp' = Toast("toast_error")
                  ELSE UNCHANGED co /\
                       resp' = Failure("processPayment", 500,
                                       "Failed to process payment")
    /\ UNCHANGED <<cartVars, cart, section, ledgerVars, gw>>

\* updateOrderPaymentStatus: PATCH /orders/{id}/payment to the order
\* service; neither the error of client.Do nor the status of the response is
\* looked at. The order service may be unreachable, its first UPDATE may fail
\* (500), or the UPDATE is applied; for "completed" the handler then goes on
\* to its second UPDATE.
updateOrderPaymentStatus(c) ==
    /\ c \in calls
    /\ c.stage = "push"
    /\ \E outcome \in {"unreachable", "failed", "updated"} :
          IF outcome = "updated"
          THEN /\ orders' = SetPaymentStatus(c.order, c.status)
               /\ IF c.status = "completed"
                  THEN /\ calls' = (calls \ {c}) \cup
                                      {[c EXCEPT !.stage = "confirm"]}
                       /\ resp' = NoResp
                       /\ UNCHANGED co
                  ELSE /\ calls' = calls \ {c}
                       /\ Answered(c)
          ELSE /\ UNCHANGED orders
               /\ calls' = calls \ {c}
               /\ Answered(c)
    /\ UNCHANGED <<cartVars, cart, section, order_items, tx, payments, gw>>

\* The second statement of updatePaymentStatus for "completed":
\* UPDATE orders SET status = 'confirmed'; its error is dropped.
updatePaymentStatus_confirm(c) ==
    /\ c \in calls
    /\ c.stage = "confirm"
    /\ \E ok \in BOOLEAN :
          orders' = IF ok THEN SetStatus(c.order, "confirmed") ELSE orders
    /\ calls' = calls \ {c}
    /\ Answered(c)
    /\ UNCHANGED <<cartVars, cart, section, order_items, tx, payments, gw>>

\* refundPayment without the check of the status it read: every payment
\* that exists is refunded.
refundPayment_unchecked(from, pid) ==
    /\ IF pid \notin 1..Len(payments)
       THEN /\ resp' = Answer("refundPayment", 404, pid)
            /\ UNCHANGED calls
       ELSE /\ resp' = NoResp
            /\ calls' = calls \cup
                  {Call("refundPayment", "update", pid, payments[pid].order_id,
                        "refunded", from)}
    /\ UNCHANGED <<cartVars, clientVars, ledgerVars, payments, gw>>

\* refundPayment up to its check: the payment is read; an unknown id answers
\* 404, a payment that is not completed answers 400.
refundPayment(from, pid) ==
    /\ IF pid \notin 1..Len(payments)
       THEN /\ resp' = Answer("refundPayment", 404, pid)
            /\ UNCHANGED calls
       ELSE IF payments[pid].status # "completed"
       THEN /\ resp' = [Answer("refundPayment", 400, pid) EXCEPT
                           !.msg = "Only completed payments can be refunded"]
            /\ UNCHANGED calls
       ELSE /\ resp' = NoResp
            /\ calls' = calls \cup
                  {Call("refundPayment", "update", pid, payments[pid].order_id,
                        "refunded", from)}
    /\ UNCHANGED <<cartVars, clientVars, ledgerVars, payments, gw>>

\* refundPayment: UPDATE payments SET status = 'refunded' WHERE id = $1; a
\* failure answers 500.
refundPayment_update(c) ==
    /\ c \in calls
    /\ c.op = "refundPayment" /\ c.stage = "update"
    /\ \E ok \in BOOLEAN :
          IF ok
          THEN /\ payments' = [payments EXCEPT ![c.pid].status = "refunded"]
               /\ calls' = (calls \ {c}) \cup {[c EXCEPT !.stage = "push"]}
               /\ resp' = NoResp
          ELSE /\ UNCHANGED payments
               /\ calls' = calls \ {c}
               /\ resp' = Answer("refundPayment", 500, c.pid)
    /\ UNCHANGED <<cartVars, clientVars, ledgerVars, gw>>

\* ------------------------------------------------------- client: checkout
\* handleCheckout, first request: POST /orders with the cached cart's total
\* and lines.
handleCheckout_order ==
    /\ section = "checkout"
    /\ co.pc = "idle"
    /\ createOrder("client",
                   [user_id |-> currentUser, total_amount |-> cart.total_price,
                    items |-> Lines(cart.items)])

\* The card of the checkout form: number, expiry and CVC as typed.
FormCard == CardInfo(<<4, 2, 4, 2, 4, 2>>, <<1, 2, 3, 0>>, <<1, 2, 3>>)

\* handleCheckout, second request: POST /payments for the order just
\* created, with the cached cart's total as the amount.
handleCheckout_pay ==
    /\ co.pc = "ordered"
    /\ processPayment("client",
                      [order_id |-> co.order, user_id |-> currentUser,
                       amount |-> cart.total_price, card_info |-> FormCard])

\* handleCheckout, the payment request does not complete: the fetch rejects,
\* or the gateway's ErrorHandler answers 503 with a text body that json()
\* fails to parse, while the payment service has the request; the catch
\* shows the error toast. The payment service goes on with the request.
handleCheckout_catch ==
    /\ co.pc = "paying"
    /\ co' = Idle
    /\ resp' = Toast("toast_error")
    /\ UNCHANGED <<cartVars, cart, section, ledgerVars, payments, calls, gw>>

\* handleCheckout after the payment's JSON arrived. completed: DELETE
\* /cart/{id}, whose response is not looked at, then the cached cart is
\* reset and success is shown; a fetch that rejects ends in the error toast.
\* Any other status: the decline toast.
handleCheckout_result ==
    /\ co.pc = "paid"
    /\ co' = Idle
    /\ IF co.status = "completed"
       THEN \E outcome \in {"cleared", "failed", "rejected"} :
               /\ cart_items' = IF outcome = "cleared"
                                THEN DeleteCart(currentUser) ELSE cart_items
               /\ IF outcome = "rejected"
                  THEN /\ resp' = Toast("toast_error")
                       /\ UNCHANGED <<cart, section>>
                  ELSE /\ resp' = Toast("toast_success")
                       /\ cart' = EmptyCart
                       /\ section' = "orders"
       ELSE /\ resp' = Toast("toast_declined")
            /\ UNCHANGED <<cart_items, cart, section>>
    /\ UNCHANGED <<nextCartId, ledgerVars, payments, calls, gw>>

\* ------------------------------------------------- single-process variant
\* createOrder of the single-process server: one transaction inserts the
\* header and the items and deletes the customer's cart rows; the answer
\* reports status confirmed and payment_status completed though the row
\* holds pending/pending. A statement or the commit that fails rolls all of
\* it back. The transaction's rows show only at its commit, so it is one
\* step.
monoCreateOrder(req) ==
    /\ ~ tx.open
    /\ Len(orders) < MaxOrders
    /\ \E ok \in BOOLEAN :
          IF ok
          THEN /\ orders' = Append(orders, OrderRow(Len(orders) + 1, req))
               /\ order_items' =
                     order_items \cup ItemRows(Len(orders) + 1, req.items)
               /\ cart_items' = DeleteCart(req.user_id)
               /\ co' = [pc |-> "ordered", order |-> Len(orders) + 1,
                         status |-> ""]
               /\ resp' = [Answer("createOrder", 201, Len(orders) + 1) EXCEPT
                              !.msg = "confirmed/completed"]
          ELSE /\ UNCHANGED <<orders, order_items, cart_items>>
               /\ co' = Idle
               /\ resp' = Toast("toast_error")
    /\ UNCHANGED <<nextCartId, cart, section, tx, payments, calls, gw>>

\* The cart handlers of the single-process server: they run their statement
\* with db.Exec and answer the success whatever it returned.
monoUpdateCartItem(u, i, q) ==
    /\ \E ok \in BOOLEAN :
          cart_items' = IF ~ ok THEN cart_items
                        ELSE IF q <= 0 THEN DeleteItem(u, i)
                        ELSE SetQuantity(u, i, q)
    /\ resp' = CartAnswer("updateCartItem", 200, u,
                          {[item_id |-> i, quantity |-> q]})
    /\ UNCHANGED <<nextCartId, clientVars, ledgerVars, payments, calls, gw>>

monoRemoveFromCart(u, i) ==
    /\ \E ok \in BOOLEAN :
          cart_items' = IF ok THEN DeleteItem(u, i) ELSE cart_items
    /\ resp' = CartAnswer("removeFromCart", 204, u,
                          {[item_id |-> i, quantity |-> 0]})
    /\ UNCHANGED <<nextCartId, clientVars, ledgerVars, payments, calls, gw>>

monoClearCart(u) ==
    /\ \E ok \in BOOLEAN :
          cart_items' = IF ok THEN DeleteCart(u) ELSE cart_items
    /\ resp' = CartAnswer("clearCart", 204, u, {})
    /\ UNCHANGED <<nextCartId, clientVars, ledgerVars, payments, calls, gw>>

\* handleCheckout against the single-process server, first request.
monoHandleCheckout_order ==
    /\ section = "checkout"
    /\ co.pc = "idle"
    /\ monoCreateOrder([user_id |-> currentUser,
                        total_amount |-> cart.total_price,
                        items |-> Lines(cart.items)])

\* handleCheckout against the single-process server, second request: the
\* server has no /api/payments route, the file server answers 404 with a
\* text body, json() throws and the catch shows the error toast.
monoHandleCheckout_pay ==
    /\ co.pc = "ordered"
    /\ co' = Idle
    /\ resp' = Toast("toast_error")
    /\ UNCHANGED <<cartVars, cart, section, ledgerVars, payments, calls, gw>>

\* ------------------------------------------------------------ other callers
\* Requests that reach the services from elsewhere than handleCheckout
\* (another session, a script): the handlers take whatever the body says.
\* Each caller sends one request at a time and waits for its answer.
Callers == {"a", "b"}
Waiting(k) == (\E c \in calls : c.from = k) \/ (tx.open /\ tx.from = k)

\* The lines handleCheckout sends for a cart of one unit of product 1.
OneLine == {[product_id |-> 1, name |-> NameOf(1), quantity |-> 1,
             price |-> PriceOf(1)]}

TwoLines == OneLine \cup {[product_id |-> 2, name |-> NameOf(2),
                            quantity |-> 2, price |-> PriceOf(2)]}

\* The item lists and, for each, the totals of the order requests sent.
ApiItems == {{}, OneLine, TwoLines}
ApiTotals(items) == {TotalPrice(items), 1}

apiCreateOrder(k, items, total) ==
    /\ ~ Waiting(k)
    /\ createOrder(k, [user_id |-> currentUser, total_amount |-> total,
                       items |-> items])

apiCharge(k, o, a) ==
    /\ ~ Waiting(k)
    /\ processPayment(k, [order_id |-> o, user_id |-> currentUser, amount |-> a,
                          card_info |-> NoCard])

\* The same with card data.
apiChargeCard(k, o, a, card) ==
    /\ ~ Waiting(k)
    /\ processPayment(k, [order_id |-> o, user_id |-> currentUser, amount |-> a,
                          card_info |-> card])

apiRefund(k, pid) ==
    /\ ~ Waiting(k)
    /\ refundPayment(k, pid)

apiUpdateOrderStatus(k, id, s) ==
    /\ ~ Waiting(k)
    /\ updateOrderStatus(k, id, s)

apiUpdatePaymentStatus(k, id, s) ==
    /\ ~ Waiting(k)
    /\ updatePaymentStatus(k, id, s)

apiGetOrder(k, id) ==
    /\ ~ Waiting(k)
    /\ getOrder(k, id)

\* ------------------------------------------------------------------ gateway
\* rateLimitMiddleware: requestCounts[ip] > 1000 is rejected.
RateLimit == 1000

\* r.RemoteAddr: the client's address and the port of its connection.
RemoteAddrs == {[ip |-> "10.0.0.1", port |-> p] : p \in {1, 2}}
ClientAddrs == {k.ip : k \in RemoteAddrs}

\* The goroutines of the requests the gateway handles at the same time.
Handlers == {1, 2}

\* The limiter's globals after 998 requests over one connection in the first
\* window: requestCounts (a missing key reads 0), whether a minute has passed
\* since lastReset, and which map requestCounts refers to. Each goroutine
\* has its position, its RemoteAddr, the count and the map it read. arrived
\* and forwarded count what came in and what was passed on in the window
\* that began with the first reset after the minute passed.
GwInit ==
    [requestCounts |-> [k \in RemoteAddrs |->
                          IF k.port = 1 THEN RateLimit - 2 ELSE 0],
     expired |-> FALSE, map |-> 0, ticks |-> 0, started |-> 0,
     crashed |-> FALSE,
     pc |-> [h \in Handlers |-> "idle"],
     ip |-> [h \in Handlers |-> CHOOSE k \in RemoteAddrs : k.port = 1],
     n |-> [h \in Handlers |-> 0],
     m |-> [h \in Handlers |-> 0],
     arrived |-> [k \in RemoteAddrs |->
                    IF k.port = 1 THEN RateLimit - 2 ELSE 0],
     forwarded |-> [a \in ClientAddrs |-> RateLimit - 2],
     last |-> "none"]

restVars == <<cart_items, nextCartId, cart, section, co, orders, order_items,
              tx, payments, calls, resp>>

\* A minute has passed since lastReset.
gwTick ==
    /\ ~ gw.crashed
    /\ ~ gw.expired
    /\ gw.ticks < MaxTicks
    /\ gw' = [gw EXCEPT !.expired = TRUE, !.ticks = @ + 1, !.last = "none"]
    /\ UNCHANGED restVars

\* A request enters the middleware in its own goroutine and tests
\* time.Since(lastReset) > time.Minute.
rateLimitMiddleware(h, k) ==
    /\ ~ gw.crashed
    /\ gw.pc[h] = "idle"
    /\ gw.started < MaxRequests
    /\ gw' = [gw EXCEPT !.pc[h] = IF gw.expired THEN "reset" ELSE "load",
                        !.ip[h] = k, !.started = @ + 1, !.last = "none"]
    /\ UNCHANGED restVars

\* requestCounts = make(map[string]int)
rateLimit_reset(h) ==
    /\ ~ gw.crashed
    /\ gw.pc[h] = "reset"
    /\ gw' = [gw EXCEPT !.requestCounts = [k \in RemoteAddrs |-> 0],
                        !.map = @ + 1, !.pc[h] = "stamp", !.last = "none"]
    /\ UNCHANGED restVars

\* lastReset = time.Now(): the window begins, unless it began with the reset
\* of another goroutine.
rateLimit_stamp(h) ==
    /\ ~ gw.crashed
    /\ gw.pc[h] = "stamp"
    /\ gw' = [gw EXCEPT
                !.expired = FALSE, !.pc[h] = "load", !.last = "none",
                !.arrived = IF gw.expired
                            THEN [k \in RemoteAddrs |-> 0] ELSE @,
                !.forwarded = IF gw.expired
                              THEN [a \in ClientAddrs |-> 0] ELSE @]
    /\ UNCHANGED restVars

\* requestCounts[ip]++, the read: the goroutine reads the map the global
\* refers to and the count in it.
rateLimit_load(h) ==
    /\ ~ gw.crashed
    /\ gw.pc[h] = "load"
    /\ gw' = [gw EXCEPT !.n[h] = gw.requestCounts[gw.ip[h]],
                        !.m[h] = gw.map, !.pc[h] = "store", !.last = "none"]
    /\ UNCHANGED restVars

\* requestCounts[ip]++, the write, with no lock: into the map that was read
\* (a map that was replaced since is no longer the global one), or, while
\* another goroutine is in its increment too, the runtime's fatal error
\* "concurrent map writes".
rateLimit_store(h) ==
    /\ ~ gw.crashed
    /\ gw.pc[h] = "store"
    /\ \/ gw' = [gw EXCEPT
                    !.requestCounts[gw.ip[h]] =
                       IF gw.m[h] = gw.map THEN gw.n[h] + 1 ELSE @,
                    !.arrived[gw.ip[h]] = @ + 1,
                    !.pc[h] = "check", !.last = "none"]
       \/ /\ \E o \in Handlers \ {h} : gw.pc[o] = "store"
          /\ gw' = [gw EXCEPT !.crashed = TRUE, !.last = "fatal"]
    /\ UNCHANGED restVars

\* if requestCounts[ip] > 1000: 429, else next.ServeHTTP.
rateLimit_check(h) ==
    /\ ~ gw.crashed
    /\ gw.pc[h] = "check"
    /\ gw' = IF gw.requestCounts[gw.ip[h]] > RateLimit
             THEN [gw EXCEPT !.pc[h] = "idle", !.last = "429"]
             ELSE [gw EXCEPT !.pc[h] = "idle", !.last = "forwarded",
                             !.forwarded[gw.ip[h].ip] = @ + 1]
    /\ UNCHANGED restVars

\* ---------------------------------------------------------- specifications
Init ==
    /\ cart_items = {}
    /\ nextCartId = 1
    /\ cart = EmptyCart
    /\ section = "products"
    /\ co = Idle
    /\ orders = <<>>
    /\ order_items = {}
    /\ tx = NoTx
    /\ payments = <<>>
    /\ calls = {}
    /\ resp = NoResp
    /\ gw = GwInit

\* The client's checkout against the cart, order and payment services.
Next ==
    \/ \E p \in Products : addToCart(currentUser, p, 1, PriceOf(p), NameOf(p), ImageOf(p))
    \/ loadCart
    \/ checkout
    \/ handleCheckout_order
    \/ createOrder_item
    \/ createOrder_commit
    \/ handleCheckout_pay
    \/ handleCheckout_catch
    \/ handleCheckout_result
    \/ \E c \in calls : updateOrderPaymentStatus(c)
    \/ \E c \in calls : updatePaymentStatus_confirm(c)

Spec == Init /\ [][Next]_vars

\* The same where no handler stops half way: every statement returns or
\* fails, the push returns within the Timeout of its http.Client, and the
\* page goes on when its fetch settles.
SpecLive ==
    /\ Spec
    /\ WF_vars(createOrder_item)
    /\ WF_vars(createOrder_commit)
    /\ WF_vars(handleCheckout_pay)
    /\ WF_vars(handleCheckout_result)
    /\ WF_vars(\E c \in calls : updateOrderPaymentStatus(c))
    /\ WF_vars(\E c \in calls : updatePaymentStatus_confirm(c))

\* The payment service and the order service under the charge and refund
\* requests of two callers.
NextPay ==
    \/ \E k \in Callers : apiCreateOrder(k, OneLine, TotalPrice(OneLine))
    \/ createOrder_item
    \/ createOrder_commit
    \/ \E k \in Callers, o \in 1..Len(orders) :
          apiCharge(k, o, orders[o].total_amount)
    \/ \E k \in Callers, pid \in 1..MaxPayments : apiRefund(k, pid)
    \/ \E c \in calls : updateOrderPaymentStatus(c)
    \/ \E c \in calls : updatePaymentStatus_confirm(c)
    \/ \E c \in calls : refundPayment_update(c)

SpecPay == Init /\ [][NextPay]_vars

\* The order service under the create and read requests of two callers.
NextOrders ==
    \/ \E k \in Callers, items \in ApiItems :
          \E total \in ApiTotals(items) : apiCreateOrder(k, items, total)
    \/ createOrder_item
    \/ createOrder_commit
    \/ \E k \in Callers, id \in 1..MaxOrders : apiGetOrder(k, id)
    \/ \E c \in calls : getOrder_items(c)

SpecOrders == Init /\ [][NextOrders]_vars

\* The client's checkout against the single-process server.
NextMono ==
    \/ \E p \in Products : addToCart(currentUser, p, 1, PriceOf(p), NameOf(p), ImageOf(p))
    \/ loadCart
    \/ checkout
    \/ monoHandleCheckout_order
    \/ monoHandleCheckout_pay

SpecMono == Init /\ [][NextMono]_vars

\* The cart routes of the single-process server.
NextMonoCart ==
    \/ \E u \in {currentUser, currentUser + 1}, p \in Products :
          addToCart(u, p, 1, PriceOf(p), NameOf(p), ImageOf(p))
    \/ \E u \in {currentUser, currentUser + 1}, i \in 1..MaxCartId,
          q \in {0, 3} : monoUpdateCartItem(u, i, q)
    \/ \E u \in {currentUser, currentUser + 1}, i \in 1..MaxCartId :
          monoRemoveFromCart(u, i)
    \/ \E u \in {currentUser, currentUser + 1} : monoClearCart(u)

SpecMonoCart == Init /\ [][NextMonoCart]_vars

\* The order service with one order stored, under the status requests of
\* two callers.
InitStatus ==
    /\ cart_items = {}
    /\ nextCartId = 1
    /\ cart = EmptyCart
    /\ section = "products"
    /\ co = Idle
    /\ orders = <<OrderRow(1, [user_id |-> currentUser,
                               total_amount |-> TotalPrice(OneLine),
                               items |-> OneLine])>>
    /\ order_items = ItemRows(1, OneLine)
    /\ tx = NoTx
    /\ payments = <<>>
    /\ calls = {}
    /\ resp = NoResp
    /\ gw = GwInit

NextStatus ==
    \/ \E k \in Callers, id \in 1..MaxOrders, s \in AnyStatuses :
          apiUpdateOrderStatus(k, id, s)
    \/ \E k \in Callers, id \in 1..MaxOrders, s \in AnyStatuses :
          apiUpdatePaymentStatus(k, id, s)
    \/ \E c \in calls : updatePaymentStatus_confirm(c)

SpecStatus == InitStatus /\ [][NextStatus]_vars

\* The payment service with one order stored, under charge requests of any
\* amount.
Amounts == {0 - 1, 0, TotalPrice(OneLine)}

NextCharge ==
    \/ \E k \in Callers, o \in 1..Len(orders), a \in Amounts :
          apiCharge(k, o, a)
    \/ \E c \in calls : updateOrderPaymentStatus(c)
    \/ \E c \in calls : updatePaymentStatus_confirm(c)

SpecCharge == InitStatus /\ [][NextCharge]_vars

\* What the body of an add says of the product: the catalog's price, name
\* and image, or other ones (the catalog changed, the caller made them up).
Changed == [price |-> 1, name |-> "renamed", image_url |-> "other.png"]

Described ==
    {[price |-> PriceOf(p), name |-> NameOf(p), image_url |-> ImageOf(p)] :
        p \in Products}
    \cup {Changed}

\* One stored order under everything that runs after its creation: status
\* and payment patches, charges and refunds, the creation of another order,
\* and the customer's cart filled at later values of the product, changed
\* and emptied. One caller sends the ledger's requests.
NextLedger ==
    \/ \E s \in {"shipped", "cancelled"} : apiUpdateOrderStatus("a", 1, s)
    \/ \E s \in {"completed", "refunded"} : apiUpdatePaymentStatus("a", 1, s)
    \/ apiCharge("a", 1, orders[1].total_amount)
    \/ apiRefund("a", 1)
    \/ \E c \in calls : updateOrderPaymentStatus(c)
    \/ \E c \in calls : updatePaymentStatus_confirm(c)
    \/ \E c \in calls : refundPayment_update(c)
    \/ apiCreateOrder("a", OneLine, TotalPrice(OneLine))
    \/ createOrder_item
    \/ createOrder_commit
    \/ addToCart(currentUser, 1, 1, Changed.price, Changed.name,
                 Changed.image_url)
    \/ updateCartItem(currentUser, 1, 3)
    \/ removeFromCart(currentUser, 1)
    \/ clearCart(currentUser)

SpecLedger == InitStatus /\ [][NextLedger]_vars

\* The payment service with one order stored, under charges that carry no
\* card, the form's card, or numbers of three and of four digits.
Cards ==
    {NoCard, FormCard,
     CardInfo(<<1, 2, 3>>, <<0, 1, 2, 9>>, <<9, 9, 9>>),
     CardInfo(<<7, 8, 9, 0>>, <<0, 1, 2, 9>>, <<9, 9, 9>>)}

NextCard ==
    \/ \E k \in Callers, card \in Cards :
          apiChargeCard(k, 1, orders[1].total_amount, card)
    \/ \E c \in calls : updateOrderPaymentStatus(c)
    \/ \E c \in calls : updatePaymentStatus_confirm(c)

SpecCard == InitStatus /\ [][NextCard]_vars

\* The gateway's rate limiter under requests over two connections of one
\* client.
NextGateway ==
    \/ gwTick
    \/ \E h \in Handlers, k \in RemoteAddrs : rateLimitMiddleware(h, k)
    \/ \E h \in Handlers : rateLimit_reset(h)
    \/ \E h \in Handlers : rateLimit_stamp(h)
    \/ \E h \in Handlers : rateLimit_load(h)
    \/ \E h \in Handlers : rateLimit_store(h)
    \/ \E h \in Handlers : rateLimit_check(h)

SpecGateway == Init /\ [][NextGateway]_vars

\* The client's checkouts of a cart that was filled once: one line stored and
\* loaded, and nothing added afterwards.
InitRetry ==
    /\ cart_items = {[id |-> 1, user_id |-> currentUser, product_id |-> 1,
                      quantity |-> 1, price |-> PriceOf(1), name |-> NameOf(1),
                      image_url |-> ImageOf(1)]}
    /\ nextCartId = 2
    /\ cart = [items |-> cart_items, total_items |-> TotalItems(cart_items),
               total_price |-> TotalPrice(cart_items)]
    /\ section = "products"
    /\ co = Idle
    /\ orders = <<>>
    /\ order_items = {}
    /\ tx = NoTx
    /\ payments = <<>>
    /\ calls = {}
    /\ resp = NoResp
    /\ gw = GwInit

NextRetry ==
    \/ loadCart
    \/ checkout
    \/ handleCheckout_order
    \/ createOrder_item
    \/ createOrder_commit
    \/ handleCheckout_pay
    \/ handleCheckout_catch
    \/ handleCheckout_result
    \/ \E c \in calls : updateOrderPaymentStatus(c)
    \/ \E c \in calls : updatePaymentStatus_confirm(c)

SpecRetry == InitRetry /\ [][NextRetry]_vars

\* The cart service under the requests of two customers.
\* The page on its way to an order while another session of the same customer
\* (a second tab, a client of the API) adds to the cart and clears it.
NextRead ==
    \/ loadCart
    \/ checkout
    \/ handleCheckout_order
    \/ createOrder_item
    \/ createOrder_commit
    \/ \E p \in Products, q \in {1, 2} :
          addToCart(currentUser, p, q, PriceOf(p), NameOf(p), ImageOf(p))
    \/ clearCart(currentUser)
    \/ getCart_handler(currentUser)

SpecRead == InitRetry /\ [][NextRead]_vars

Users == {currentUser, currentUser + 1}

NextAdd ==
    \/ \E u \in Users, p \in Products, d \in Described :
          addToCart(u, p, 1, d.price, d.name, d.image_url)
    \/ \E u \in Users, i \in 1..MaxCartId : removeFromCart(u, i)
    \/ \E u \in Users : getCart_handler(u)

SpecAdd == Init /\ [][NextAdd]_vars
Quantities == {1, 2}

NextCart ==
    \/ \E u \in Users, p \in Products, q \in Quantities :
          addToCart(u, p, q, PriceOf(p), NameOf(p), ImageOf(p))
    \/ \E u \in Users, i \in 1..MaxCartId, q \in {0 - 1, 0, 3} :
          updateCartItem(u, i, q)
    \/ \E u \in Users, i \in 1..MaxCartId : removeFromCart(u, i)
    \/ \E u \in Users : clearCart(u)
    \/ \E u \in Users : getCart_handler(u)

SpecCart == Init /\ [][NextCart]_vars

\* ------------------------------------------------------------------ claims
\* C1: the customer's cart is emptied if and only if the Charge of the
\* checkout's order returned completed: a step that empties a cart that has
\* lines is the step handleCheckout takes on a completed payment, and that
\* step leaves the cart empty.
C1_CartClearGating ==
    [][/\ (CartRows(currentUser) # {} /\
           {r \in cart_items' : r.user_id = currentUser} = {}) =>
              (co.pc = "paid" /\ co.status = "completed")
       /\ (co.pc = "paid" /\ co.status = "completed" /\ co'.pc = "idle") =>
              {r \in cart_items' : r.user_id = currentUser} = {}]_vars

CompletedPayments(o) ==
    {i \in 1..Len(payments) :
        payments[i].order_id = o /\ payments[i].status = "completed"}

\* C2: the amount handleCheckout charges equals the total of the customer's
\* lines as the Cart Store holds them when the charge is made: every step of
\* the checkout that inserts a Payment row inserts it with that amount.
C2_TotalCorrectness ==
    [][(co.pc = "ordered" /\ Len(payments') = Len(payments) + 1) =>
           payments'[Len(payments')].amount =
               TotalPrice(CartRows(currentUser))]_vars

\* C3: after any sequence of Charge attempts on the same order, sequential
\* or concurrent, at most one Payment row of that order has status
\* completed.
C3_AtMostOneCompletedPayment ==
    \A o \in 1..Len(orders) : Cardinality(CompletedPayments(o)) <= 1

\* C4: no readable state of the ledger has an order with paymentStatus
\* completed and status pending.
C4_StatusCoupling ==
    \A o \in 1..Len(orders) :
        orders[o].payment_status = "completed" => orders[o].status # "pending"

\* C5: a Refund of a payment whose status is not completed is answered with
\* an error and writes nothing: the step that answers the error leaves the
\* payments and the orders as they were, and a refund gets past the check
\* (to its UPDATE) only for a payment that is completed when it is read. So
\* every refund of a payment of an order without a completed payment is
\* rejected.
C5_RefundRejection ==
    [][/\ (resp'.op = "refundPayment" /\ resp'.code \in {400, 404}) =>
             (payments' = payments /\ orders' = orders)
       /\ \A c \in calls' \ calls :
             (c.op = "refundPayment" /\ c.stage = "update") =>
                 payments[c.pid].status = "completed"]_vars

\* A second refund of a refunded payment was just rejected.
C5_Witness ==
    /\ resp.op = "refundPayment" /\ resp.code = 400
    /\ payments[resp.id].status = "refunded"

\* C6: whenever a Refund reports success, the Payment's status is refunded
\* and the paymentStatus of that payment's order is refunded.
C6_RefundEffect ==
    (resp.op = "refundPayment" /\ resp.code = 200) =>
        /\ payments[resp.id].status = "refunded"
        /\ HasOrder(payments[resp.id].order_id)
        /\ orders[payments[resp.id].order_id].payment_status = "refunded"

C8_NoZeroItemOrder == \A o \in 1..Len(orders) : ItemsOf(o) # {}

\* C9: when the Charge of a checkout is approved, the checkout ends with the
\* ledger holding its order with totalAmount equal to the total of the
\* order's lines, status confirmed and paymentStatus completed, and with the
\* customer's cart empty.
C9_ApprovedCheckout ==
    [][(co.pc = "paid" /\ co.status = "completed" /\ co'.pc = "idle") =>
           /\ HasOrder(co.order)
           /\ orders'[co.order].total_amount = TotalPrice(ItemsOf(co.order))
           /\ orders'[co.order].status = "confirmed"
           /\ orders'[co.order].payment_status = "completed"
           /\ {r \in cart_items' : r.user_id = currentUser} = {}]_vars

\* C10: when the Charge of a checkout is declined, the checkout ends with
\* its order in the ledger with status pending and paymentStatus failed, and
\* with the cart as it was.
C10_DeclinedCheckout ==
    [][(co.pc = "paid" /\ co.status = "failed" /\ co'.pc = "idle") =>
           /\ HasOrder(co.order)
           /\ orders'[co.order].status = "pending"
           /\ orders'[co.order].payment_status = "failed"
           /\ cart_items' = cart_items]_vars

\* C11: every stored order's total_amount equals the sum of quantity times
\* price over its stored order items.
C11_OrderTotalInvariant ==
    \A o \in 1..Len(orders) : orders[o].total_amount = TotalPrice(ItemsOf(o))

\* C12: in a checkout the charge is sent only after createOrder succeeded:
\* a step that inserts a Payment row is the payment request of a checkout
\* whose order exists, for that order; and the step in which the checkout's
\* createOrder fails ends the checkout and inserts no Payment row.
C12_NoChargeWithoutOrder ==
    [][/\ Len(payments') # Len(payments) =>
              /\ co.pc = "ordered"
              /\ HasOrder(co.order)
              /\ orders[co.order].user_id = currentUser
              /\ payments'[Len(payments')].order_id = co.order
       /\ (co.pc \in {"idle", "ordering"} /\ resp'.op = "toast_error") =>
              (co'.pc = "idle" /\ payments' = payments)]_vars

\* The checkout's createOrder failed: the error toast, no order, no payment.
C12_Witness ==
    /\ section = "checkout"
    /\ resp.op = "toast_error"
    /\ co.pc = "idle"
    /\ orders = <<>>
    /\ payments = <<>>

\* C13: when the checkout's charge ends in an infrastructure failure (the
\* INSERT of the payment fails, or the call does not complete) the order is
\* still pending/pending, it has no completed Payment row, and the cart rows
\* are as they were.
C13_ChargeFailureRetrySafe ==
    [][(co.pc \in {"ordered", "paying"} /\ co'.pc = "idle" /\
        resp'.op = "toast_error") =>
           /\ orders'[co.order].status = "pending"
           /\ orders'[co.order].payment_status = "pending"
           /\ \A i \in 1..Len(payments') :
                  payments'[i].order_id = co.order =>
                      payments'[i].status # "completed"
           /\ cart_items' = cart_items]_vars

\* C14: a customer's cart has at most one line per product, and an addToCart
\* that succeeds leaves one line for the product sent, whose quantity is the
\* quantity sent when there was no such line, and the old quantity plus the
\* quantity sent when there was one.
C14_AddItemMerges ==
    [][/\ \A r1, r2 \in cart_items' :
              (r1.user_id = r2.user_id /\ r1.product_id = r2.product_id) =>
                  r1 = r2
       /\ (resp'.op = "addToCart" /\ resp'.code = 200) =>
              \A sent \in resp'.body :
                 LET old == {r \in cart_items : r.user_id = resp'.id /\
                                                r.product_id = sent.product_id}
                     new == {r \in cart_items' : r.user_id = resp'.id /\
                                                 r.product_id = sent.product_id}
                 IN /\ Cardinality(new) = 1
                    /\ \A n \in new :
                          /\ old = {} => n.quantity = sent.quantity
                          /\ \A o \in old :
                                n.quantity = o.quantity + sent.quantity
      ]_vars

\* Quantity 1 was added to a line of quantity 1: one line of quantity 2.
C14_Witness ==
    /\ resp.op = "addToCart" /\ resp.code = 200
    /\ \E sent \in resp.body : sent.quantity = 1
    /\ \E r \in cart_items : r.user_id = resp.id /\ r.quantity = 2
    /\ Cardinality(cart_items) = 1

\* C20: a cart write for one customer (addToCart, updateCartItem,
\* removeFromCart, clearCart) changes no line of another customer, also when
\* the item id it names is the id of another customer's line.
C20_CartIsolation ==
    [][resp'.op \in {"addToCart", "updateCartItem", "removeFromCart",
                     "clearCart"} =>
           \A u \in Users \ {resp'.id} :
               {r \in cart_items' : r.user_id = u} = CartRows(u)]_vars

\* A customer's update or removal that succeeded named the id of a line of
\* another customer, and that line is there.
C20_Witness ==
    /\ resp.op \in {"updateCartItem", "removeFromCart"}
    /\ resp.code \in {200, 204}
    /\ \E named \in resp.body :
          \E r \in cart_items : r.id = named.item_id /\ r.user_id # resp.id

\* C15: an order's status changes only along pending, confirmed, processing,
\* shipped, delivered one step at a time, or from pending, confirmed or
\* processing to cancelled; delivered and cancelled are never left.
C15_OrderStatusMachine ==
    [][LET steps == {<<"pending", "confirmed">>, <<"confirmed", "processing">>,
                     <<"processing", "shipped">>, <<"shipped", "delivered">>,
                     <<"pending", "cancelled">>, <<"confirmed", "cancelled">>,
                     <<"processing", "cancelled">>}
       IN \A o \in 1..Len(orders) :
             orders'[o].status # orders[o].status =>
                 <<orders[o].status, orders'[o].status>> \in steps]_vars

\* C16: an order's payment_status changes only from pending to completed or
\* failed, from failed to completed, and from completed to refunded.
C16_PaymentStatusMachine ==
    [][LET steps == {<<"pending", "completed">>, <<"pending", "failed">>,
                     <<"failed", "completed">>, <<"completed", "refunded">>}
       IN \A o \in 1..Len(orders) :
             orders'[o].payment_status # orders[o].payment_status =>
                 <<orders[o].payment_status, orders'[o].payment_status>>
                     \in steps]_vars

\* C17: an updateOrderStatus whose status is none of pending, confirmed,
\* processing, shipped, delivered, cancelled is answered 400 and leaves every
\* order (status, payment_status, updated_at) as it was.
C17_UpdateStatusValidation ==
    [][resp'.op = "updateOrderStatus" =>
          \A sent \in resp'.body :
              sent.status \notin {"pending", "confirmed", "processing",
                                  "shipped", "delivered", "cancelled"} =>
                  (resp'.code = 400 /\ orders' = orders)]_vars

\* A status that is no status was sent for an order that is stored, and
\* refused.
C17_Witness ==
    /\ resp.op = "updateOrderStatus" /\ resp.code = 400
    /\ HasOrder(resp.id)
    /\ \E sent \in resp.body : sent.status = "returned"

\* C18: an updatePaymentStatus whose value is none of pending, completed,
\* failed, refunded is answered 400 and leaves every order (payment_status,
\* status) as it was.
C18_UpdatePaymentStatusValidation ==
    [][resp'.op = "updatePaymentStatus" =>
          \A sent \in resp'.body :
              sent.status \notin {"pending", "completed", "failed",
                                  "refunded"} =>
                  (resp'.code = 400 /\ orders' = orders)]_vars

\* A payment status that is none was sent for an order that is stored, and
\* refused.
C18_Witness ==
    /\ resp.op = "updatePaymentStatus" /\ resp.code = 400
    /\ HasOrder(resp.id)
    /\ \E sent \in resp.body : sent.status = "shipped"

\* C19: a charge with an amount of zero or less creates no Payment row:
\* every Payment row inserted has a positive amount.
C19_ChargePrecondition ==
    [][Len(payments') # Len(payments) =>
          payments'[Len(payments')].amount > 0]_vars

\* C21: an updateCartItem that succeeds with a quantity of 0 or less removes
\* exactly the line it names from the customer's cart, and with a quantity
\* above 0 sets that line's quantity to the quantity sent, whatever it was;
\* every other line is as it was.
C21_UpdateItemSemantics ==
    [][(resp'.op = "updateCartItem" /\ resp'.code = 200) =>
          \A named \in resp'.body :
             LET line == {r \in cart_items :
                            r.id = named.item_id /\ r.user_id = resp'.id}
             IN cart_items' =
                   IF named.quantity <= 0
                   THEN cart_items \ line
                   ELSE (cart_items \ line) \cup
                        {[r EXCEPT !.quantity = named.quantity] : r \in line}
      ]_vars

\* Quantity 3 was set on one of two lines: it has quantity 3, the other line
\* is there.
C21_Witness ==
    /\ resp.op = "updateCartItem" /\ resp.code = 200
    /\ \E named \in resp.body :
          /\ named.quantity = 3
          /\ \E r \in cart_items :
                r.id = named.item_id /\ r.user_id = resp.id /\ r.quantity = 3
    /\ Cardinality(CartRows(resp.id)) = 2

\* The sum over a set of lines of their quantities, each counted once
\* (weighted FALSE) or times the line's price (weighted TRUE).
RECURSIVE SumOfLines(_, _)
SumOfLines(rows, weighted) ==
    IF rows = {} THEN 0
    ELSE LET r == CHOOSE x \in rows : TRUE
         IN r.quantity * (IF weighted THEN r.price ELSE 1) +
            SumOfLines(rows \ {r}, weighted)

C23_LedgerBeforeClear ==
    [][(co.pc = "paid" /\ co.status = "completed" /\
        (resp'.op = "toast_success" \/ cart_items' # cart_items)) =>
           (HasOrder(co.order) /\
            orders[co.order].payment_status = "completed")]_vars

\* C24: of the refunds of one completed payment, overlapping or not, one
\* succeeds: a refund gets past its UPDATE only by turning the payment from
\* completed to refunded, and the order's payment_status is pushed to
\* refunded only when it is not refunded already.
C24_ConcurrentRefunds ==
    [][\A c \in calls :
          (c.op = "refundPayment" /\ c \notin calls') =>
              /\ (c.stage = "update" /\ resp'.code # 500) =>
                     payments[c.pid].status = "completed"
              /\ (c.stage = "push" /\ orders' # orders) =>
                     orders[c.order].payment_status # "refunded"]_vars

\* C25: a cart that was filled once is paid for at most once, also when a
\* checkout stopped between its approved charge and the clearing of the
\* cart: the customer has at most one completed Payment.
C25_NoRechargeAfterCrash ==
    Cardinality({i \in 1..Len(payments) :
                    payments[i].user_id = currentUser /\
                    payments[i].status = "completed"}) <= 1

\* C26: no addToCart that reports success is lost, in any interleaving: each
\* one raises the quantity held for its customer and product by exactly the
\* quantity it sent and changes no other row, so after n of them the one
\* line holds the initial quantity plus the sum of the quantities sent.
C26_NoLostAddItem ==
    [][(resp'.op = "addToCart" /\ resp'.code = 200) =>
          \A sent \in resp'.body :
             LET mine(r) == r.user_id = resp'.id /\
                            r.product_id = sent.product_id
                 before == {r \in cart_items : mine(r)}
                 after == {r \in cart_items' : mine(r)}
             IN /\ SumOfLines(after, FALSE) =
                      SumOfLines(before, FALSE) + sent.quantity
                /\ cart_items' \ after = cart_items \ before
                /\ Cardinality(before) <= 1]_vars

\* Quantity 2 was added to a line of quantity 1 while the other customer
\* holds a line of the same product: the line has 3.
C26_Witness ==
    /\ resp.op = "addToCart" /\ resp.code = 200
    /\ \E sent \in resp.body :
          /\ sent.quantity = 2
          /\ \E r \in cart_items :
                /\ r.user_id = resp.id
                /\ r.product_id = sent.product_id
                /\ r.quantity = 3

\* C27: a read of the cart that overlaps a clearCart of the same customer
\* gives every stored line or none, and so an order the page creates from
\* what it read holds all the lines of the cart as it was before the clear,
\* or is not created: no order is created from the empty read.
C27_ReadVersusClear ==
    [][/\ cart' # cart => cart'.items \in {{}, CartRows(currentUser)}
       /\ (Len(orders') > Len(orders) /\ tx.from = "client") =>
             /\ cart.items # {}
             /\ {i \in order_items' : i.order_id = Len(orders')} =
                   ItemRows(Len(orders'), Lines(cart.items))]_vars

\* C28: a payment completion never moves an order backwards: the second
\* UPDATE of updatePaymentStatus(order, completed) leaves the order confirmed
\* when it was pending, and leaves its status as it was when it was already
\* confirmed, processing, shipped, delivered or cancelled.
C28_CompletionNeverBackwards ==
    [][\A c \in calls :
          (c.op = "updatePaymentStatus" /\ c.stage = "confirm" /\
           c \notin calls' /\ HasOrder(c.order)) =>
             orders'[c.order].status =
                IF orders[c.order].status = "pending"
                THEN "confirmed" ELSE orders[c.order].status]_vars

PaymentsOf(o, st) ==
    {i \in 1..Len(payments) :
        payments[i].order_id = o /\ payments[i].status = st}

\* C29: in every reachable state an order whose payment_status is completed
\* has a completed Payment row and one whose payment_status is refunded has
\* a refunded Payment row; and when no status push is outstanding, an order
\* with a completed Payment row is not shown as failed or pending.
C29_LedgerPaymentConsistency ==
    \A o \in 1..Len(orders) :
       /\ orders[o].payment_status = "completed" =>
             PaymentsOf(o, "completed") # {}
       /\ orders[o].payment_status = "refunded" =>
             PaymentsOf(o, "refunded") # {}
       /\ (calls = {} /\ PaymentsOf(o, "completed") # {}) =>
             orders[o].payment_status \notin {"failed", "pending"}

\* C30: the answer of createOrder reports the order as confirmed and
\* completed only if a payment of that order was approved; an order with no
\* approved payment is reported as pending.
C30_ReportedStatusBackedByCharge ==
    [][(resp'.op = "createOrder" /\ resp'.code = 201 /\
        resp'.msg = "confirmed/completed") =>
          \E i \in 1..Len(payments') :
             /\ payments'[i].order_id = resp'.id
             /\ payments'[i].status = "completed"]_vars

\* C31: every charge whose INSERT is run adds exactly one Payment row and
\* changes no other; the row is completed with an empty error_message or
\* failed with a non-empty one; and a decline is answered 402 with that
\* failed row, an approval 201 with its row, unlike the 500 of a failed
\* INSERT.
C31_ChargeOutcomeRecord ==
    [][/\ Len(payments') # Len(payments) =>
             /\ Len(payments') = Len(payments) + 1
             /\ SubSeq(payments', 1, Len(payments)) = payments
             /\ LET row == payments'[Len(payments')]
                IN \/ row.status = "completed" /\ row.error_message = ""
                   \/ row.status = "failed" /\ row.error_message # ""
       /\ (resp'.op = "processPayment" /\ resp'.code # 500) =>
             /\ resp'.id \in 1..Len(payments')
             /\ resp'.code = IF payments'[resp'.id].status = "failed"
                             THEN 402 ELSE 201
             /\ (payments'[resp'.id].error_message # "") =
                   (resp'.code = 402)]_vars

\* A declined charge was answered to its caller: 402 with the failed row.
C31_Witness ==
    /\ resp.op = "processPayment" /\ resp.code = 402
    /\ resp.id \in 1..Len(payments)
    /\ payments[resp.id].status = "failed"
    /\ payments[resp.id].error_message = "Payment declined by issuer"

\* C32: the stored Payment rows have pairwise distinct transaction ids in
\* every reachable state, and a charge whose generated id equals a stored
\* one fails: no step changes the transaction id of a stored row or stores
\* a second row with it.
C32_TransactionIdUnique ==
    [][/\ \A i, j \in 1..Len(payments') :
             payments'[i].transaction_id = payments'[j].transaction_id => i = j
       /\ \A i \in 1..Len(payments) :
             /\ i <= Len(payments')
             /\ payments'[i].transaction_id = payments[i].transaction_id]_vars

\* A charge failed at its INSERT while a payment is stored, as one with a
\* stored transaction id does.
C32_Witness ==
    /\ resp.op = "processPayment" /\ resp.code = 500
    /\ Len(payments) >= 1
    /\ \A i \in 1..Len(payments) : payments[i].transaction_id = i

\* C33: addToCart on a customer and product that have a line changes only
\* the quantity of that line: its price, name and image_url stay as stored
\* whatever the request carries, and every other line is unchanged.
C33_AddItemFrame ==
    [][(resp'.op = "addToCart" /\ resp'.code = 200) =>
          \A sent \in resp'.body :
             \A r \in cart_items :
                IF r.user_id = resp'.id /\ r.product_id = sent.product_id
                THEN \E n \in {r.quantity + sent.quantity} :
                        [r EXCEPT !.quantity = n] \in cart_items'
                ELSE r \in cart_items']_vars

\* A second add of the product carried another price, name and image than
\* the line has.
C33_Witness ==
    /\ resp.op = "addToCart" /\ resp.code = 200
    /\ \E sent \in resp.body, r \in cart_items :
          /\ r.user_id = resp.id /\ r.product_id = sent.product_id
          /\ r.quantity = 2
          /\ r.price # sent.price /\ r.name # sent.name
          /\ r.image_url # sent.image_url

\* C34: once createOrder has committed an order, no later step changes its
\* items (product_id, name, quantity, price) or its total_amount: not a cart
\* operation, a later price or name of the product, a status or payment
\* patch, a charge or a refund.
C34_OrderSnapshotImmutable ==
    [][\A o \in 1..Len(orders) :
          /\ o <= Len(orders')
          /\ {i \in order_items' : i.order_id = o} = ItemsOf(o)
          /\ orders'[o].total_amount = orders[o].total_amount
          /\ orders'[o].user_id = orders[o].user_id]_vars

\* The order was cancelled and refunded and the cart holds its product at
\* another price and name: the order has its line and total.
C34_Witness ==
    /\ orders[1].status = "cancelled"
    /\ orders[1].payment_status = "refunded"
    /\ \E r \in cart_items : r.product_id = 1 /\ r.price = 1
    /\ Lines(ItemsOf(1)) = OneLine
    /\ orders[1].total_amount = TotalPrice(OneLine)

\* C35: of the card data of a charge, a stored Payment row holds the last
\* four digits of the number and nothing else: no field for the number, the
\* expiry or the CVC, card_last4 empty when the number has fewer than four
\* digits, and never the full number, the expiry or the CVC of a card.
C35_CardDataRetention ==
    \A i \in 1..Len(payments) :
       /\ DOMAIN payments[i] \cap {"number", "expiry", "cvc", "card_info"} = {}
       /\ payments[i].card_last4 \in {CardLast4(c) : c \in Cards}
       /\ Len(payments[i].card_last4) \in {0, 4}
       /\ \A c \in Cards :
             c.present =>
                payments[i].card_last4 \notin {c.number, c.expiry, c.cvc}

\* C36: updateOrderStatus and updatePaymentStatus for an id that no order
\* of the ledger has answer an error, not a success, and change no order.
C36_PatchUnknownOrder ==
    [][(resp'.op \in {"updateOrderStatus", "updatePaymentStatus"} /\
        ~ HasOrder(resp'.id)) =>
          (resp'.code # 200 /\ orders' = orders)]_vars

\* C37: clearCart, removeFromCart and updateCartItem do not answer a success
\* for a write that did not happen: after a success of clearCart the
\* customer has no line, after one of removeFromCart the line named is not
\* the customer's, and after one of updateCartItem the line named, if the
\* customer had it, has the quantity sent or, for a quantity of 0 or less,
\* is gone.
C37_CartWriteFailuresReported ==
    [][/\ (resp'.op = "clearCart" /\ resp'.code = 204) =>
             {r \in cart_items' : r.user_id = resp'.id} = {}
       /\ (resp'.op = "removeFromCart" /\ resp'.code = 204) =>
             \A named \in resp'.body :
                ~ \E r \in cart_items' :
                     r.id = named.item_id /\ r.user_id = resp'.id
       /\ (resp'.op = "updateCartItem" /\ resp'.code = 200) =>
             \A named \in resp'.body :
                \A r \in cart_items' :
                   (r.id = named.item_id /\ r.user_id = resp'.id) =>
                      (named.quantity > 0 /\ r.quantity = named.quantity)]_vars

\* C38: every checkout that was started ends, and ends in exactly one of
\* three outcomes: success shown with the order confirmed and the customer's
\* cart cleared, the decline shown with the cart as it was, or the error
\* shown; the push of the payment service always returns, so the charge is
\* answered.
C38_CheckoutAlwaysEnds ==
    /\ (co.pc # "idle") ~> (co.pc = "idle")
    /\ (\E c \in calls : c.op = "processPayment") ~>
          ~ (\E c \in calls : c.op = "processPayment")
    /\ [][(co.pc # "idle" /\ co'.pc = "idle") =>
            \/ /\ resp'.op = "toast_success"
               /\ HasOrder(co.order)
               /\ orders'[co.order].status = "confirmed"
               /\ {r \in cart_items' : r.user_id = currentUser} = {}
            \/ /\ resp'.op = "toast_declined"
               /\ cart_items' = cart_items
            \/ resp'.op = "toast_error"]_vars

\* C39: within one reset window the gateway forwards at most 1000 requests
\* of a client address, also under concurrent requests: no increment of a
\* counter is lost and no reset discards counts of the new window, so that
\* when no request is in the middleware every counter equals the number of
\* requests that came in over its connection in the window.
C39_RateLimitUnderConcurrency ==
    /\ \A a \in ClientAddrs : gw.forwarded[a] <= RateLimit
    /\ (\A h \in Handlers : gw.pc[h] = "idle") =>
          \A k \in RemoteAddrs : gw.requestCounts[k] = gw.arrived[k]

====
